---- MODULE Spec2Model ----
(***************************************************************************)
(* Model of ProductsService (src/products/products.service.ts): the five   *)
(* handlers create, findAll, findOne, update and remove over the Product   *)
(* table reached through the generated Prisma client.  Every await on the  *)
(* Prisma client is one atomic step against the table; a handler with two  *)
(* awaits (findAll, update, remove) is two steps, and steps of handlers    *)
(* run for different callers interleave.  A write reads the clock when it  *)
(* lands; the clock never goes backwards.                                  *)
(***************************************************************************)
EXTENDS Integers, Sequences, FiniteSets, TLC

\* ---- bounds of the model ----
MaxRows == 2        \* products created when requests run one at a time
MaxPage == 2        \* largest page a caller asks for
MaxLimit == 2       \* largest limit a caller asks for

\* ---- program constants ----
DefaultLimit == 10  \* const { limit = 10, ... }
DefaultPage == 1    \* const { ..., page = 1 }

\* ---- inputs ----
Callers == {"c1", "c2"}          \* requests the dispatcher may have in flight
Names == {"a", "b"}
Prices == {1, 2}
Ids == 1..(MaxRows + 1)          \* includes an id that is never assigned
Instants == 0..1                 \* the instants the clock is read at
Contended == {1}                 \* the product two interleaved requests race for
PayloadNames == {"", "a"}        \* the names a message may carry
PayloadPrices == {-1, 0, 1}      \* the prices a message may carry
PayloadIds == 0..2               \* the ids an update_product message may carry

VARIABLES
    table,      \* the Product table, rows in primary-key order
    now,        \* the last instant @default(now()) or @updatedAt stamped a row with
    calls,      \* per caller: where its handler is suspended, and its locals
    resp,       \* the reply returned to a caller by the last step, if any
    removed     \* per id, how many remove calls have returned successfully

vars == <<table, now, calls, resp, removed>>

\* ---- Prisma model Product ----
\* id Int @id @default(autoincrement()): one more than every id in the table
NextId(t) == Len(t) + 1

\* where: { available: true }
WhereAvailable(r) == r.available = TRUE

\* the lookup with the availability filter left out
WhereIdOnly(r, id) == r.id = id

\* where: { id, available: true }
WhereIdAvailable(r, id) == r.id = id /\ r.available = TRUE

\* a where that matches every row
WhereAnyRow(r, id) == TRUE

\* the write with the availability filter added to its where
WhereIdStillAvailable(r, id) == r.id = id /\ r.available = TRUE

\* where: { id }
WhereId(r, id) == r.id = id

\* a create that leaves updatedAt at the epoch instead of stamping it
CreateUnstamped(t, data, time) ==
    Append(t, [id |-> NextId(t), name |-> data.name, price |-> data.price,
               available |-> TRUE, createdAt |-> time, updatedAt |-> 0])

\* this.product.create({ data }): available defaults to true, createdAt to
\* now(), updatedAt is set by @updatedAt to the same instant
ProductCreate(t, data, time) ==
    Append(t, [id |-> NextId(t), name |-> data.name, price |-> data.price,
               available |-> TRUE, createdAt |-> time, updatedAt |-> time])

\* a count with its where left out
CountEveryRow(t) == Len(t)

\* this.product.count({ where: { available: true } })
ProductCount(t) == Cardinality({i \in 1..Len(t) : WhereAvailable(t[i])})

\* rows of t matching where: { available: true }, in primary-key order
RECURSIVE AvailableRows(_)
AvailableRows(t) ==
    IF t = <<>> THEN <<>>
    ELSE IF WhereAvailable(Head(t)) THEN <<Head(t)>> \o AvailableRows(Tail(t))
    ELSE AvailableRows(Tail(t))

\* a findMany with its where left out
FindManyUnfiltered(t, skip, take) ==
    LET last == IF skip + take < Len(t) THEN skip + take ELSE Len(t)
    IN  SubSeq(t, skip + 1, last)

\* this.product.findMany({ skip, take, where: { available: true } })
ProductFindMany(t, skip, take) ==
    LET rows == AvailableRows(t)
        last == IF skip + take < Len(rows) THEN skip + take ELSE Len(rows)
    IN  SubSeq(rows, skip + 1, last)

\* findFirst by id alone, as findUnique({ where: { id } }) would answer
RECURSIVE FindFirstById(_, _)
FindFirstById(t, id) ==
    IF t = <<>> THEN <<>>
    ELSE IF Head(t).id = id THEN <<Head(t)>>
    ELSE FindFirstById(Tail(t), id)

\* this.product.findFirst({ where: { id, available: true } }): <<>> is null
RECURSIVE ProductFindFirst(_, _)
ProductFindFirst(t, id) ==
    IF t = <<>> THEN <<>>
    ELSE IF WhereIdAvailable(Head(t), id) THEN <<Head(t)>>
    ELSE ProductFindFirst(Tail(t), id)

\* updatedAt DateTime @updatedAt: the client stamps the row on every update
\* that writes a field; whether it also stamps an update whose data is empty
\* is left to the client, so both outcomes are kept
Refreshes(data) == IF DOMAIN data = {} THEN {TRUE, FALSE} ELSE {TRUE}

\* an update that replaces the row: a field absent from data is reset
ReplacedRow(r, data, time, refresh) ==
    [k \in DOMAIN r |-> IF k \in DOMAIN data THEN data[k]
                        ELSE IF k = "updatedAt" /\ refresh THEN time
                        ELSE IF k = "price" THEN 1
                        ELSE IF k = "name" THEN "a"
                        ELSE r[k]]

\* an update that stamps updatedAt with the epoch instead of the clock
RowStampedEpoch(r, data, time, refresh) ==
    [k \in DOMAIN r |-> IF k \in DOMAIN data THEN data[k]
                        ELSE IF k = "updatedAt" /\ refresh THEN 0
                        ELSE r[k]]

\* one row after this.product.update({ where: { id }, data }) at instant time
UpdatedRow(r, data, time, refresh) ==
    [k \in DOMAIN r |-> IF k \in DOMAIN data THEN data[k]
                        ELSE IF k = "updatedAt" /\ refresh THEN time
                        ELSE r[k]]

\* the table after this.product.update({ where: { id }, data })
ProductUpdate(t, id, data, time, refresh) ==
    [i \in 1..Len(t) |->
        IF WhereId(t[i], id) THEN UpdatedRow(t[i], data, time, refresh)
        ELSE t[i]]

\* an update that resolves to the row as it was before the write
ProductBefore(t, id, data, time, refresh) ==
    LET hit == {i \in 1..Len(t) : WhereId(t[i], id)}
    IN  IF hit = {} THEN <<>> ELSE <<t[CHOOSE i \in hit : TRUE]>>

\* the record this.product.update resolves to; <<>> when no row matches the
\* where, and the client rejects with P2025
ProductUpdated(t, id, data, time, refresh) ==
    LET hit == {i \in 1..Len(t) : WhereId(t[i], id)}
    IN  IF hit = {} THEN <<>>
        ELSE <<UpdatedRow(t[CHOOSE i \in hit : TRUE], data, time, refresh)>>

\* ---- DTOs ----
\* CreateProductDto: name and price, both required
CreateProductDto == [name : Names, price : Prices]

\* UpdateProductDto: PartialType(CreateProductDto) plus the required id
UpdateDtos(i) ==
    {[id |-> i]} \cup {[id |-> i, name |-> n] : n \in Names}
    \cup {[id |-> i, price |-> p] : p \in Prices}
    \cup {[id |-> i, name |-> n, price |-> p] : n \in Names, p \in Prices}

UpdateProductDto == UNION {UpdateDtos(i) : i \in Ids}

\* PaginationDto: page and limit, both optional and positive
PaginationDto ==
    {<<>>} \cup {[page |-> p] : p \in 1..MaxPage}
    \cup {[limit |-> l] : l \in 1..MaxLimit}
    \cup {[page |-> p, limit |-> l] : p \in 1..MaxPage, l \in 1..MaxLimit}

\* the dto passed on as data with its id left in
KeepId(dto) == dto

\* const { id: __, ...data } = updateProductDto
StripId(dto) == [k \in DOMAIN dto \ {"id"} |-> dto[k]]

\* a soft delete that leaves the flag set
SoftDeleteKeepsFlag == [available |-> TRUE]

\* data: { available: false }
SoftDeleteData == [available |-> FALSE]

\* the division rounded down, as Math.floor would
Floor(total, limit) == total \div limit

\* Math.ceil(totalProducts / limit)
Ceil(total, limit) == (total + limit - 1) \div limit

\* a skip that counts pages from zero
SkipFromPage(page, limit) == page * limit

\* a skip that counts rows where it should count pages
SkipRows(page, limit) == page - 1

\* skip: (page - 1) * limit
Skip(page, limit) == (page - 1) * limit

\* ---- replies ----
NoError == [name |-> "", id |-> 0]

\* new NotFoundException(`Product with id #${id} not found`)
NotFoundException(id) == [name |-> "NotFoundException", id |-> id]

\* the rejection of this.product.update when no row matches its where
RecordNotFound == [name |-> "PrismaClientKnownRequestError", id |-> 0]

NoMeta == [page |-> 0, total |-> 0, lastPage |-> 0]

\* what a handler resolves or rejects with
Reply(op, id, error, product, data, meta) ==
    [op |-> op, id |-> id, error |-> error,
     product |-> product, data |-> data, meta |-> meta]

\* the step returned nothing to any caller
NoReply == Reply("none", 0, NoError, <<>>, <<>>, NoMeta)

\* the existence check with its throw left out
NeverMissing(product) == FALSE

\* if (!product) throw ...
IsMissing(product) == product = <<>>

\* ---- handler positions ----
Idle == [pc |-> "idle", id |-> 0, data |-> <<>>, page |-> 0, limit |-> 0,
         total |-> 0]

Init ==
    /\ table = <<>>
    /\ now = 0
    /\ calls = [c \in Callers |-> Idle]
    /\ resp = NoReply
    /\ removed = [id \in Ids |-> 0]

\* the instants a write may read from the clock, which never goes backwards
Clock == {time \in Instants : time >= now}

\* create(createProductDto)
Create(c, dto) ==
    /\ calls[c].pc = "idle"
    /\ \E time \in Clock :
         /\ now' = time
         /\ table' = ProductCreate(table, dto, time)
    /\ calls' = [calls EXCEPT ![c] = Idle]
    /\ resp' = Reply("create", 0, NoError,
                     <<table'[Len(table')]>>, <<>>, NoMeta)
    /\ UNCHANGED removed

\* findAll with the two defaults exchanged, { limit = 1, page = 10 }
FindAllCountSwapped(c, dto) ==
    /\ calls[c].pc = "idle"
    /\ LET limit == IF "limit" \in DOMAIN dto THEN dto.limit ELSE DefaultPage
           page == IF "page" \in DOMAIN dto THEN dto.page ELSE DefaultLimit
       IN  calls' = [calls EXCEPT ![c] =
                        [Idle EXCEPT !.pc = "findMany", !.page = page,
                                     !.limit = limit,
                                     !.total = ProductCount(table)]]
    /\ resp' = NoReply
    /\ UNCHANGED <<table, now, removed>>

\* findAll(paginationDto), up to the await of this.product.count
FindAllCount(c, dto) ==
    /\ calls[c].pc = "idle"
    /\ LET limit == IF "limit" \in DOMAIN dto THEN dto.limit ELSE DefaultLimit
           page == IF "page" \in DOMAIN dto THEN dto.page ELSE DefaultPage
       IN  calls' = [calls EXCEPT ![c] =
                        [Idle EXCEPT !.pc = "findMany", !.page = page,
                                     !.limit = limit,
                                     !.total = ProductCount(table)]]
    /\ resp' = NoReply
    /\ UNCHANGED <<table, now, removed>>

\* a findAll that stamps the rows it returns as read
FindAllFetchTouches(c) ==
    /\ calls[c].pc = "findMany"
    /\ LET page == calls[c].page
           limit == calls[c].limit
           totalProducts == calls[c].total
           lastPage == Ceil(totalProducts, limit)
       IN  /\ resp' = Reply("findAll", 0, NoError, <<>>,
                            ProductFindMany(table, Skip(page, limit), limit),
                            [page |-> page, total |-> totalProducts,
                             lastPage |-> lastPage])
           /\ \E time \in Clock :
                 /\ now' = time
                 /\ table' = [i \in 1..Len(table) |->
                                 IF WhereAvailable(table[i])
                                 THEN [table[i] EXCEPT !.updatedAt = time]
                                 ELSE table[i]]
    /\ calls' = [calls EXCEPT ![c] = Idle]
    /\ UNCHANGED removed

\* findAll, from the await of this.product.findMany to the return
FindAllFetch(c) ==
    /\ calls[c].pc = "findMany"
    /\ LET page == calls[c].page
           limit == calls[c].limit
           totalProducts == calls[c].total
           lastPage == Ceil(totalProducts, limit)
       IN  resp' = Reply("findAll", 0, NoError, <<>>,
                         ProductFindMany(table, Skip(page, limit), limit),
                         [page |-> page, total |-> totalProducts,
                          lastPage |-> lastPage])
    /\ calls' = [calls EXCEPT ![c] = Idle]
    /\ UNCHANGED <<table, now, removed>>

\* a findOne that answers from memory: an id some handler is about to remove
\* is reported missing without asking the table
FindOneRemembers(c, id) ==
    /\ calls[c].pc = "idle"
    /\ LET product == IF \E d \in Callers :
                             calls[d].pc = "remove" /\ calls[d].id = id
                      THEN <<>>
                      ELSE ProductFindFirst(table, id)
       IN  resp' = IF IsMissing(product)
                   THEN Reply("findOne", id, NotFoundException(id),
                              <<>>, <<>>, NoMeta)
                   ELSE Reply("findOne", id, NoError, product, <<>>, NoMeta)
    /\ UNCHANGED <<table, now, calls, removed>>

\* findOne(id)
FindOne(c, id) ==
    /\ calls[c].pc = "idle"
    /\ LET product == ProductFindFirst(table, id)
       IN  resp' = IF IsMissing(product)
                   THEN Reply("findOne", id, NotFoundException(id),
                              <<>>, <<>>, NoMeta)
                   ELSE Reply("findOne", id, NoError, product, <<>>, NoMeta)
    /\ UNCHANGED <<table, now, calls, removed>>

\* update(id, updateProductDto), up to the await of this.findOne(id)
UpdateCheck(c, id, dto) ==
    /\ calls[c].pc = "idle"
    /\ LET data == StripId(dto)
           product == ProductFindFirst(table, id)
       IN  IF IsMissing(product)
           THEN /\ resp' = Reply("update", id, NotFoundException(id),
                                 <<>>, <<>>, NoMeta)
                /\ UNCHANGED calls
           ELSE /\ calls' = [calls EXCEPT ![c] =
                                [Idle EXCEPT !.pc = "update", !.id = id,
                                             !.data = data]]
                /\ resp' = NoReply
    /\ UNCHANGED <<table, now, removed>>

\* update, the await of this.product.update and the return
UpdateWrite(c) ==
    /\ calls[c].pc = "update"
    /\ LET id == calls[c].id
           data == calls[c].data
       IN  \E time \in Clock, refresh \in Refreshes(data) :
             LET product == ProductUpdated(table, id, data, time, refresh)
             IN  /\ now' = IF product # <<>> /\ refresh THEN time ELSE now
                 /\ IF product = <<>>
                    THEN /\ resp' = Reply("update", id, RecordNotFound,
                                          <<>>, <<>>, NoMeta)
                         /\ UNCHANGED table
                    ELSE /\ table' = ProductUpdate(table, id, data, time,
                                                   refresh)
                         /\ resp' = Reply("update", id, NoError, product,
                                          <<>>, NoMeta)
    /\ calls' = [calls EXCEPT ![c] = Idle]
    /\ UNCHANGED removed

\* remove(id), up to the await of this.findOne(id)
RemoveCheck(c, id) ==
    /\ calls[c].pc = "idle"
    /\ LET product == ProductFindFirst(table, id)
       IN  IF IsMissing(product)
           THEN /\ resp' = Reply("remove", id, NotFoundException(id),
                                 <<>>, <<>>, NoMeta)
                /\ UNCHANGED calls
           ELSE /\ calls' = [calls EXCEPT ![c] =
                                [Idle EXCEPT !.pc = "remove", !.id = id]]
                /\ resp' = NoReply
    /\ UNCHANGED <<table, now, removed>>

\* remove with the hard delete, this.product.delete({ where: { id } })
RemoveDelete(c) ==
    /\ calls[c].pc = "remove"
    /\ LET id == calls[c].id
           hit == {i \in 1..Len(table) : WhereId(table[i], id)}
       IN  IF hit = {}
           THEN /\ resp' = Reply("remove", id, RecordNotFound,
                                 <<>>, <<>>, NoMeta)
                /\ UNCHANGED <<table, removed>>
           ELSE /\ table' = SelectSeq(table, LAMBDA r : ~WhereId(r, id))
                /\ resp' = Reply("remove", id, NoError,
                                 <<table[CHOOSE i \in hit : TRUE]>>,
                                 <<>>, NoMeta)
                /\ removed' = [removed EXCEPT ![id] = @ + 1]
    /\ calls' = [calls EXCEPT ![c] = Idle]
    /\ UNCHANGED now

\* remove, the await of this.product.update and the return
RemoveWrite(c) ==
    /\ calls[c].pc = "remove"
    /\ \E time \in Clock :
         LET id == calls[c].id
             product == ProductUpdated(table, id, SoftDeleteData, time, TRUE)
         IN  /\ now' = IF product # <<>> THEN time ELSE now
             /\ IF product = <<>>
                THEN /\ resp' = Reply("remove", id, RecordNotFound,
                                      <<>>, <<>>, NoMeta)
                     /\ UNCHANGED <<table, removed>>
                ELSE /\ table' = ProductUpdate(table, id, SoftDeleteData,
                                               time, TRUE)
                     /\ resp' = Reply("remove", id, NoError, product,
                                      <<>>, NoMeta)
                     /\ removed' = [removed EXCEPT ![id] = @ + 1]
    /\ calls' = [calls EXCEPT ![c] = Idle]

\* one step of the service with the requests of C in flight, the products of
\* ids being those that get created
Step(C, ids) ==
    \/ \E c \in C, dto \in CreateProductDto :
          NextId(table) \in ids /\ Create(c, dto)
    \/ \E c \in C, dto \in PaginationDto : FindAllCount(c, dto)
    \/ \E c \in C : FindAllFetch(c)
    \/ \E c \in C, id \in Ids : FindOne(c, id)
    \/ \E c \in C, dto \in UpdateProductDto : UpdateCheck(c, dto.id, dto)
    \/ \E c \in C : UpdateWrite(c)
    \/ \E c \in C, id \in Ids : RemoveCheck(c, id)
    \/ \E c \in C : RemoveWrite(c)

\* requests of two callers interleave at every await, over one product
Next == Step(Callers, Contended)

Spec == Init /\ [][Next]_vars

\* one request at a time, over MaxRows products: no other handler runs between
\* the awaits of one
NextSerial == Step({"c1"}, 1..MaxRows)

SpecSerial == Init /\ [][NextSerial]_vars

\* ---- ValidationPipe in front of the controller ----
\* a message payload with property k absent or holding a value of V
Optional(k, V) == {<<>>} \cup {[x \in {k} |-> v] : v \in V}

\* the payloads of create_product: name, price and a property no DTO declares
CreatePayloads ==
    {n @@ p @@ a : n \in Optional("name", PayloadNames),
                   p \in Optional("price", PayloadPrices),
                   a \in Optional("available", {TRUE})}

\* the payloads of update_product
UpdatePayloads ==
    {i @@ q : i \in Optional("id", PayloadIds), q \in CreatePayloads}

\* @IsString()
IsString(v) == v \in STRING

\* @IsNumber()
IsNumber(v) == v \in Int

\* a lower bound that is not enforced
MinOff(v, m) == TRUE

\* @Min(m)
Min(v, m) == v >= m

\* @IsPositive()
IsPositive(v) == v > 0

\* a pipe that lets undeclared properties through
NotWhitelisted(payload, props) == TRUE

\* whitelist: true, forbidNonWhitelisted: true
Whitelisted(payload, props) == DOMAIN payload \subseteq props

\* the pipe on a CreateProductDto: both properties are required
ValidCreate(payload) ==
    /\ Whitelisted(payload, {"name", "price"})
    /\ "name" \in DOMAIN payload
    /\ IsString(payload.name)
    /\ "price" \in DOMAIN payload
    /\ IsNumber(payload.price)
    /\ Min(payload.price, 0)

\* the pipe on an UpdateProductDto: PartialType makes name and price
\* optional, id is required
ValidUpdate(payload) ==
    /\ Whitelisted(payload, {"id", "name", "price"})
    /\ "id" \in DOMAIN payload
    /\ IsNumber(payload.id)
    /\ IsPositive(payload.id)
    /\ "name" \in DOMAIN payload => IsString(payload.name)
    /\ "price" \in DOMAIN payload
          => (IsNumber(payload.price) /\ Min(payload.price, 0))

\* what the pipe throws
BadRequestException == [name |-> "BadRequestException", id |-> 0]

\* the pipe throws before the handler of op runs
ValidationFails(c, op) ==
    /\ calls[c].pc = "idle"
    /\ resp' = Reply(op, 0, BadRequestException, <<>>, <<>>, NoMeta)
    /\ UNCHANGED <<table, now, calls, removed>>

\* @MessagePattern({ cmd: 'create_product' })
CreateProduct(c, payload) ==
    \/ ValidCreate(payload) /\ Create(c, payload)
    \/ ~ValidCreate(payload) /\ ValidationFails(c, "create")

\* @MessagePattern({ cmd: 'update_product' }), up to the await of findOne
UpdateProduct(c, payload) ==
    \/ ValidUpdate(payload) /\ UpdateCheck(c, payload.id, payload)
    \/ ~ValidUpdate(payload) /\ ValidationFails(c, "update")

\* the microservice: messages of two callers, each through the pipe, over one
\* product
NextController ==
    \/ \E c \in Callers, payload \in CreatePayloads :
          /\ ValidCreate(payload) => NextId(table) \in Contended
          /\ CreateProduct(c, payload)
    \/ \E c \in Callers, dto \in PaginationDto : FindAllCount(c, dto)
    \/ \E c \in Callers : FindAllFetch(c)
    \/ \E c \in Callers, id \in Ids : FindOne(c, id)
    \/ \E c \in Callers, payload \in UpdatePayloads : UpdateProduct(c, payload)
    \/ \E c \in Callers : UpdateWrite(c)
    \/ \E c \in Callers, id \in Ids : RemoveCheck(c, id)
    \/ \E c \in Callers : RemoveWrite(c)

SpecController == Init /\ [][NextController]_vars

\* ---- a Prisma call that rejects ----
\* the error of a call the database could not serve
PersistenceError == [name |-> "PrismaClientUnknownRequestError", id |-> 0]

\* a handler that catches the rejection and resolves
Swallowed(op, id, error) == Reply(op, id, NoError, <<>>, <<>>, NoMeta)

\* no handler has a try/catch: the rejection of an awaited (or returned)
\* Prisma promise is the rejection of the handler
Rejection(op, id, error) == Reply(op, id, error, <<>>, <<>>, NoMeta)

\* a handler that calls again when its second Prisma call rejects: it stays
\* where it is
PrismaRetries(c, op, id) ==
    /\ \/ /\ calls[c].pc = "idle"
          /\ op \in {"create", "findAll", "findOne", "update", "remove"}
          /\ op \in {"create", "findAll"} => id = 0
          /\ op \in {"findOne", "update", "remove"} => id \in Ids
       \/ /\ calls[c].pc = "findMany"
          /\ op = "findAll"
          /\ id = 0
       \/ /\ calls[c].pc \in {"update", "remove"}
          /\ op = calls[c].pc
          /\ id = calls[c].id
    /\ resp' = Rejection(op, id, PersistenceError)
    /\ UNCHANGED <<table, now, calls, removed>>

\* the Prisma call caller c's handler of op is at rejects: the first call of
\* any handler, the findMany of findAll, or the write of update or remove.
\* The statement is not applied and the handler does not run on.
PrismaRejects(c, op, id) ==
    /\ \/ /\ calls[c].pc = "idle"
          /\ op \in {"create", "findAll", "findOne", "update", "remove"}
          /\ op \in {"create", "findAll"} => id = 0
          /\ op \in {"findOne", "update", "remove"} => id \in Ids
       \/ /\ calls[c].pc = "findMany"
          /\ op = "findAll"
          /\ id = 0
       \/ /\ calls[c].pc \in {"update", "remove"}
          /\ op = calls[c].pc
          /\ id = calls[c].id
    /\ resp' = Rejection(op, id, PersistenceError)
    /\ calls' = [calls EXCEPT ![c] = Idle]
    /\ UNCHANGED <<table, now, removed>>

\* the service over a database whose calls may fail
NextFaulty ==
    \/ Next
    \/ \E c \in Callers, op \in {"create", "findAll", "findOne", "update", "remove"},
          id \in {0} \cup Ids : PrismaRejects(c, op, id)

SpecFaulty == Init /\ [][NextFaulty]_vars

\* the Prisma call a suspended handler of caller c waits for answers: it
\* resolves and the handler runs on to its return, or it rejects
Answers(c) ==
    \/ FindAllFetch(c)
    \/ UpdateWrite(c)
    \/ RemoveWrite(c)
    \/ /\ calls[c].pc # "idle"
       /\ \E op \in {"findAll", "update", "remove"}, id \in {0} \cup Ids :
             PrismaRejects(c, op, id)

\* the service over a database that may fail but answers every call
SpecLive == SpecFaulty /\ \A c \in Callers : WF_vars(Answers(c))

\* ---- properties ----
\* the rows with available = true
AvailableIds == {table[i].id : i \in {j \in 1..Len(table) : table[j].available}}

\* in this step the existence check of caller c's op passes: the handler goes
\* on to its write
Passes(c, op) == calls[c].pc = "idle" /\ calls'[c].pc = op

\* in this step the existence check of an op throws: the caller gets the
\* rejection and no handler is left suspended for it
Rejects(op) == resp'.op = op /\ calls' = calls

\* in this step the write of caller c's op lands and the handler returns
Writes(c, op) == calls[c].pc = op /\ calls'[c].pc = "idle"

\* C1: once a remove of a product has returned successfully, every findOne of
\* its id answered afterwards fails with NotFoundException and no findAll
\* answered afterwards carries the product in its data, whatever the page and
\* limit and whatever ran in between.
C1_SoftDeleteInvisible ==
    [][/\ (resp'.op = "findOne" /\ removed[resp'.id] > 0)
            => resp'.error = NotFoundException(resp'.id)
       /\ resp'.op = "findAll"
            => \A i \in 1..Len(resp'.data) : removed[resp'.data[i].id] = 0]_vars

C1_Witness ==
    /\ resp.op = "findOne"
    /\ removed[resp.id] > 0
    /\ resp.error.name = "NotFoundException"

\* C2: findOne(id) resolves to the stored row exactly when a row with that id
\* and available = true exists; otherwise it rejects with NotFoundException
\* carrying the id and no product, the same for an id never assigned and for a
\* soft-deleted row.
C2_FindOneContract ==
    [][resp'.op = "findOne" =>
        LET id == resp'.id
            hits == {i \in 1..Len(table) : table[i].id = id /\ table[i].available}
        IN  IF hits # {}
            THEN /\ resp'.error = NoError
                 /\ \E i \in hits : resp'.product = <<table[i]>>
            ELSE /\ resp'.product = <<>>
                 /\ resp'.error = [name |-> "NotFoundException", id |-> id]]_vars

C2_Witness ==
    /\ resp.op = "findOne"
    /\ resp.error = NoError
    /\ resp.product = <<table[resp.id]>>
    /\ \E id \in Ids : removed[id] > 0

\* C3: the existence check of update(id, patch) or remove(id) passes only for
\* an id with an available row; for any other id (never assigned, or
\* soft-deleted) it rejects with NotFoundException carrying the id, the table
\* is left as it was (every row, updatedAt included) and no write is pending.
C3_MissingIdNoWrite ==
    [][/\ \A c \in Callers :
            (Passes(c, "update") \/ Passes(c, "remove"))
                => (calls'[c].id \in AvailableIds /\ table' = table)
       /\ (Rejects("update") \/ Rejects("remove"))
            => /\ resp'.id \notin AvailableIds
               /\ resp'.error = NotFoundException(resp'.id)
               /\ resp'.product = <<>>
               /\ table' = table]_vars

C3_Witness ==
    /\ resp.op = "update"
    /\ resp.error.name = "NotFoundException"
    /\ removed[resp.id] > 0
    /\ ~table[resp.id].available

\* C4: with one request at a time, remove(id) of an available product
\* succeeds (its check passes and its write returns the row soft-deleted), and
\* a remove(id) called right after a successful remove of the same id does
\* not pass its check: it rejects with NotFoundException.
C4_RemoveTwice ==
    [][/\ Rejects("remove") => resp'.id \notin AvailableIds
       /\ \A c \in Callers :
            Writes(c, "remove")
                => /\ resp'.op = "remove"
                   /\ resp'.id = calls[c].id
                   /\ resp'.error = NoError
                   /\ ~table'[resp'.id].available
       /\ (resp.op = "remove" /\ resp.error = NoError)
            => /\ \A c \in Callers :
                    Passes(c, "remove") => calls'[c].id # resp.id
               /\ (Rejects("remove") /\ resp'.id = resp.id)
                    => resp'.error = NotFoundException(resp.id)]_vars

C4_Witness ==
    /\ resp.op = "remove"
    /\ resp.error.name = "NotFoundException"
    /\ removed[resp.id] = 1

\* C5: the write of remove is keyed by id alone, so a remove that passed its
\* existence check returns success even when another remove has soft-deleted
\* the row in between; two interleaved remove calls of one available product
\* can both return success.
C5_RemoveRace ==
    [][\A c \in Callers :
        (RemoveWrite(c) /\ calls[c].id \notin AvailableIds)
            => /\ resp'.op = "remove"
               /\ resp'.error = NoError
               /\ resp'.product # <<>>
               /\ removed'[calls[c].id] = removed[calls[c].id] + 1]_vars

C5_Witness == \E id \in Ids : removed[id] = 2

\* C6 as stated: the name and price of a soft-deleted product never change.
C6_SoftDeletedNeverWritten ==
    [][\A i \in 1..Len(table) :
        ~table[i].available
            => /\ table'[i].name = table[i].name
               /\ table'[i].price = table[i].price]_vars

\* C6 as amended: the availability filter guards the existence check of update
\* and not its write.  update(id, patch) reaches its write only if the product
\* is available when the check runs, and its write, keyed by id alone, never
\* changes the available flag of any row.
C6_FilterOnCheckOnly ==
    [][\A c \in Callers :
        /\ (calls[c].pc = "idle" /\ calls'[c].pc = "update")
              => calls'[c].id \in AvailableIds
        /\ UpdateWrite(c)
              => /\ Len(table') = Len(table)
                 /\ \A i \in 1..Len(table) :
                       table'[i].available = table[i].available]_vars

C6_Witness ==
    /\ resp.op = "update"
    /\ resp.error = NoError
    /\ ~resp.product[1].available
    /\ resp.product[1].updatedAt > resp.product[1].createdAt

\* C7 as stated: meta.total of a findAll result is the number of available
\* rows of the table its data was fetched from.
C7_TotalFromFetchState ==
    [][resp'.op = "findAll" => resp'.meta.total = Cardinality(AvailableIds)]_vars

\* C7 as amended: findAll makes two persistence round trips.  meta.total is
\* the number of available rows when the count ran, data holds rows that are
\* available when the fetch runs, and a write landing between the two is seen
\* by the fetch and not by the count.
C7_CountThenFetch ==
    [][\A c \in Callers :
        /\ (calls[c].pc = "idle" /\ calls'[c].pc = "findMany")
              => calls'[c].total = Cardinality(AvailableIds)
        /\ FindAllFetch(c)
              => /\ resp'.meta.total = calls[c].total
                 /\ \A i \in 1..Len(resp'.data) :
                       /\ resp'.data[i].id \in AvailableIds
                       /\ resp'.data[i] = table[resp'.data[i].id]]_vars

C7_Witness ==
    /\ resp.op = "findAll"
    /\ resp.meta.total = 0
    /\ Len(resp.data) = 1

\* C8: the write of update(id, patch) gives the fields present in patch their
\* patch values and refreshes updatedAt of product id; the fields absent from
\* patch, createdAt, available and id of that product, every other row and the
\* number of rows are unchanged.
C8_PartialUpdate ==
    [][\A c \in Callers :
        UpdateWrite(c) =>
            LET id == calls[c].id
                data == calls[c].data
            IN  /\ Len(table') = Len(table)
                /\ \A i \in 1..Len(table) :
                     IF table[i].id = id
                     THEN /\ \A k \in {"name", "price"} :
                               table'[i][k] = IF k \in DOMAIN data THEN data[k]
                                              ELSE table[i][k]
                          /\ table'[i].id = table[i].id
                          /\ table'[i].createdAt = table[i].createdAt
                          /\ table'[i].available = table[i].available
                          /\ table'[i].updatedAt \in {table[i].updatedAt, now'}
                          /\ table'[i].updatedAt >= table[i].updatedAt
                          /\ DOMAIN data # {} => table'[i].updatedAt = now'
                     ELSE table'[i] = table[i]]_vars

C8_Witness ==
    /\ resp.op = "update"
    /\ resp.error = NoError
    /\ Len(table) = 2
    /\ resp.product[1].createdAt = 0
    /\ resp.product[1].updatedAt = 1
    /\ resp.product[1].name = "b"
    /\ resp.product[1].price = 1

\* C9: the write of remove(id) sets available to false and refreshes
\* updatedAt of product id; its id, name, price and createdAt, every other row
\* and the number of rows are unchanged.
C9_RemoveFrame ==
    [][\A c \in Callers :
        RemoveWrite(c) =>
            LET id == calls[c].id
            IN  /\ Len(table') = Len(table)
                /\ \A i \in 1..Len(table) :
                     IF table[i].id = id
                     THEN /\ table'[i].available = FALSE
                          /\ table'[i].updatedAt = now'
                          /\ table'[i].id = table[i].id
                          /\ table'[i].name = table[i].name
                          /\ table'[i].price = table[i].price
                          /\ table'[i].createdAt = table[i].createdAt
                     ELSE table'[i] = table[i]]_vars

C9_Witness ==
    /\ resp.op = "remove"
    /\ resp.error = NoError
    /\ Len(table) = 2
    /\ table[3 - resp.id].available
    /\ resp.product[1].updatedAt > resp.product[1].createdAt

\* the pages 1..lastPage of a scan with one limit over table t, concatenated
RECURSIVE Scan(_, _, _, _)
Scan(t, page, lastPage, limit) ==
    IF page > lastPage THEN <<>>
    ELSE ProductFindMany(t, Skip(page, limit), limit)
         \o Scan(t, page + 1, lastPage, limit)

\* C10: over a table that does not change during the scan, for every limit
\* the data of findAll(1, limit) ... findAll(lastPage, limit), concatenated,
\* holds every available product exactly once and nothing else.
C10_PaginationCoverage ==
    \A limit \in (1..MaxLimit) \cup {DefaultLimit} :
        LET total == ProductCount(table)
            scan == Scan(table, 1, Ceil(total, limit), limit)
        IN  /\ Len(scan) = Cardinality(AvailableIds)
            /\ {scan[i].id : i \in 1..Len(scan)} = AvailableIds
            /\ \A i \in 1..Len(scan) : scan[i] = table[scan[i].id]

C10_Witness ==
    /\ resp.op = "findAll"
    /\ resp.meta = [page |-> 2, total |-> 2, lastPage |-> 2]
    /\ resp.data = <<table[2]>>

\* in this step caller c's findAll returns
Fetches(c) ==
    calls[c].pc = "findMany" /\ calls'[c].pc = "idle" /\ resp'.op = "findAll"

\* the position of product id among the available products, in id order
Rank(id) == Cardinality({j \in AvailableIds : j <= id})

\* C11: with one request at a time, meta.total of every findAll result is the
\* number of rows with available = true and meta.lastPage is the least number
\* of pages of limit rows that hold total rows (ceil(total / limit)); lastPage
\* is 0 if and only if total is 0.
C11_LastPage ==
    [][\A c \in Callers :
        Fetches(c) =>
            LET limit == calls[c].limit
                total == resp'.meta.total
                lastPage == resp'.meta.lastPage
            IN  /\ total = Cardinality({i \in 1..Len(table') : table'[i].available})
                /\ lastPage >= 0
                /\ lastPage * limit >= total
                /\ (lastPage - 1) * limit < total
                /\ (lastPage = 0) <=> (total = 0)]_vars

C11_Witness ==
    /\ resp.op = "findAll"
    /\ resp.meta.total = 2
    /\ resp.meta.lastPage = 1
    /\ Len(resp.data) = 2

\* C12: with one request at a time, the data of findAll(page, limit) holds only
\* rows with available = true as stored, starts after the first
\* (page - 1) * limit available rows and has exactly
\* min(limit, max(0, total - (page - 1) * limit)) rows.
C12_PageSize ==
    [][\A c \in Callers :
        Fetches(c) =>
            LET limit == calls[c].limit
                page == calls[c].page
                total == Cardinality(AvailableIds)
                rest == IF total - (page - 1) * limit > 0
                        THEN total - (page - 1) * limit ELSE 0
                data == resp'.data
            IN  /\ Len(data) = IF limit < rest THEN limit ELSE rest
                /\ \A i \in 1..Len(data) :
                      /\ data[i].available
                      /\ data[i].id \in AvailableIds
                      /\ data[i] = table[data[i].id]
                      /\ Rank(data[i].id) = (page - 1) * limit + i
                /\ resp'.meta.page = page
                /\ resp'.meta.total = total]_vars

C12_Witness ==
    /\ resp.op = "findAll"
    /\ resp.meta.page = 1
    /\ resp.meta.total = 1
    /\ Len(table) = 2
    /\ ~table[1].available
    /\ resp.data = <<table[2]>>

\* C13: with one request at a time, findAll with a page beyond lastPage does
\* not fail: it resolves to an empty data, meta.page is the page asked for and
\* meta.total and meta.lastPage are those of the available products.
C13_PageOutOfRange ==
    [][\A c \in Callers :
        (Fetches(c) /\ calls[c].page > resp'.meta.lastPage)
            => /\ resp'.error = NoError
               /\ resp'.data = <<>>
               /\ resp'.meta.page = calls[c].page
               /\ resp'.meta.total = Cardinality(AvailableIds)
               /\ resp'.meta.lastPage * calls[c].limit >= Cardinality(AvailableIds)
               /\ resp'.meta.lastPage * calls[c].limit
                     < Cardinality(AvailableIds) + calls[c].limit]_vars

C13_Witness ==
    /\ resp.op = "findAll"
    /\ resp.error = NoError
    /\ resp.meta = [page |-> 2, total |-> 2, lastPage |-> 1]
    /\ resp.data = <<>>

\* in this step a create returns the row it inserted
Creates == resp'.op = "create" /\ resp'.error = NoError

\* the ids of the rows of table t
IdsOf(t) == {t[i].id : i \in 1..Len(t)}

\* C14: create(input) appends exactly one row, with the name and price of the
\* input, available = true, createdAt = updatedAt and an id no other row has,
\* resolves to that row, and leaves every row that was in the table as it was.
C14_CreateFrame ==
    [][\A c \in Callers, dto \in CreateProductDto :
        Create(c, dto) =>
            LET row == table'[Len(table')]
            IN  /\ Len(table') = Len(table) + 1
                /\ \A i \in 1..Len(table) : table'[i] = table[i]
                /\ row.name = dto.name
                /\ row.price = dto.price
                /\ row.available = TRUE
                /\ row.createdAt = row.updatedAt
                /\ row.createdAt = now'
                /\ row.id \notin IdsOf(table)
                /\ resp' = Reply("create", 0, NoError, <<row>>, <<>>, NoMeta)]_vars

C14_Witness ==
    /\ resp.op = "create"
    /\ resp.error = NoError
    /\ Len(table) = 2
    /\ ~table[1].available
    /\ resp.product = <<table[2]>>
    /\ table[2].createdAt = 1
    /\ table[2].updatedAt = 1

\* C15: no step changes the id of a row, a created row gets an id that no row
\* of the table has (soft-deleted rows included), no two rows share an id, and
\* the data an update writes carries no id: the id of the patch is dropped.
C15_IdsUniqueImmutable ==
    [][/\ Len(table') >= Len(table)
       /\ \A i \in 1..Len(table) : table'[i].id = table[i].id
       /\ \A i \in (Len(table) + 1)..Len(table') : table'[i].id \notin IdsOf(table)
       /\ \A i, j \in 1..Len(table') : table'[i].id = table'[j].id => i = j
       /\ \A c \in Callers :
            Passes(c, "update") => "id" \notin DOMAIN calls'[c].data]_vars

C15_Witness ==
    /\ resp.op = "update"
    /\ resp.error = NoError
    /\ resp.product[1].id = 2
    /\ resp.product[1].name = "b"
    /\ Len(table) = 2
    /\ table[1].id = 1
    /\ ~table[1].available

\* C17: no step takes a row out of the table: every id of the table stays in
\* it, and the number of rows grows by one in exactly the steps in which a
\* create returns, so it is the number of successful create calls.
C17_NoRowErased ==
    [][/\ IdsOf(table) \subseteq IdsOf(table')
       /\ Len(table') = Len(table) + (IF Creates THEN 1 ELSE 0)
       /\ Cardinality(IdsOf(table')) = Len(table')]_vars

C17_Witness ==
    /\ resp.op = "remove"
    /\ resp.error = NoError
    /\ removed[1] = 1
    /\ removed[2] = 1
    /\ Len(table) = 2
    /\ IdsOf(table) = {1, 2}

\* C18: every row has updatedAt >= createdAt, in every reachable state.
C18_UpdatedAfterCreated ==
    \A i \in 1..Len(table) : table[i].updatedAt >= table[i].createdAt

C18_Witness ==
    /\ Len(table) = 1
    /\ table[1].createdAt = 1
    /\ table[1].updatedAt = 1
    /\ removed[1] = 2

\* C16: a row whose available flag is false keeps it false in every step,
\* whatever messages of two callers interleave: update writes only declared
\* properties, and available is not one of them.
C16_UnavailableTerminal ==
    [][\A i \in 1..Len(table) :
        ~table[i].available
            => (Len(table') >= i /\ ~table'[i].available)]_vars

C16_Witness ==
    /\ resp.op = "update"
    /\ resp.error = NoError
    /\ removed[resp.id] = 1
    /\ ~table[resp.id].available
    /\ table[resp.id].name = ""

\* C19: every row of the table has a non-empty name.
C19_NameNonEmpty ==
    \A i \in 1..Len(table) : table[i].name # ""

\* the payloads that carry a negative price
NegativePrice(payloads) ==
    {payload \in payloads : "price" \in DOMAIN payload /\ payload.price < 0}

\* C20: every row has price >= 0 after every step.  No step in which a create
\* returns a row, or in which an update gets past the pipe and its existence
\* check, is the step of a payload with a negative price, and no pending
\* write holds one; a step answered BadRequestException writes nothing and
\* leaves nothing pending; the write of an update whose data has no price
\* leaves every price as it was.
C20_PriceNonNegative ==
    [][/\ \A i \in 1..Len(table') : table'[i].price >= 0
       /\ resp'.error = BadRequestException
            => (table' = table /\ calls' = calls /\ now' = now)
       /\ \A c \in Callers :
            /\ (calls[c].pc = "idle" /\ Creates)
                  => \A payload \in NegativePrice(CreatePayloads) :
                        ~CreateProduct(c, payload)
            /\ Passes(c, "update")
                  => /\ \A payload \in NegativePrice(UpdatePayloads) :
                          ~UpdateProduct(c, payload)
                     /\ "price" \in DOMAIN calls'[c].data
                          => calls'[c].data.price >= 0
            /\ (Writes(c, "update") /\ "price" \notin DOMAIN calls[c].data)
                  => \A i \in 1..Len(table) : table'[i].price = table[i].price]_vars

C20_Witness ==
    /\ resp.op = "update"
    /\ resp.error = BadRequestException
    /\ Len(table) = 1
    /\ table[1].price = 0
    /\ table[1].name = "a"
    /\ table[1].updatedAt > table[1].createdAt

\* C21: a step in which a Prisma call rejects answers the caller with the
\* persistence error, which is not NotFoundException, leaves the table, the
\* clock stamp and every other handler as they were, and leaves the caller's
\* handler finished (no second attempt is pending); and a create, update or
\* remove that answers without error answers with the row as the table has it.
C21_PersistenceFailure ==
    [][/\ \A c \in Callers :
            \A op \in {"create", "findAll", "findOne", "update", "remove"} :
               \A id \in {0} \cup Ids :
                  (calls'[c].pc = "idle" /\ resp'.op = op /\ resp'.id = id
                      /\ table' = table /\ PrismaRejects(c, op, id))
                     => /\ resp'.error = PersistenceError
                        /\ resp'.error.name # "NotFoundException"
                        /\ resp'.product = <<>>
                        /\ now' = now
                        /\ removed' = removed
                        /\ \A d \in Callers \ {c} : calls'[d] = calls[d]
       /\ (resp'.op \in {"create", "update", "remove"} /\ resp'.error = NoError)
            => /\ resp'.product # <<>>
               /\ resp'.product[1].id \in 1..Len(table')
               /\ table'[resp'.product[1].id] = resp'.product[1]
       /\ resp'.error = PersistenceError
            => (table' = table /\ removed' = removed)]_vars

C21_Witness ==
    /\ resp.op = "remove"
    /\ resp.error = PersistenceError
    /\ Len(table) = 1
    /\ table[1].available
    /\ \A c \in Callers : calls[c].pc = "idle"
    /\ removed[1] = 0

\* C22: a findAll without page runs as with page 1 and a findAll without
\* limit as with limit 10: the step of findAll({}) is the step of
\* findAll({page: 1, limit: 10}), likewise when only one of the two is left
\* out, and the reply of such a call is page 1 of up to 10 available rows.
C22_FindAllDefaults ==
    [][\A c \in Callers :
        /\ Passes(c, "findMany")
              => /\ FindAllCount(c, <<>>)
                      <=> FindAllCount(c, [page |-> 1, limit |-> 10])
                 /\ FindAllCount(c, <<>>)
                      => (calls'[c].page = 1 /\ calls'[c].limit = 10)
                 /\ \A p \in 1..MaxPage :
                      FindAllCount(c, [page |-> p])
                         <=> FindAllCount(c, [page |-> p, limit |-> 10])
                 /\ \A l \in 1..MaxLimit :
                      FindAllCount(c, [limit |-> l])
                         <=> FindAllCount(c, [page |-> 1, limit |-> l])
        /\ (Fetches(c) /\ calls[c].page = 1 /\ calls[c].limit = 10)
              => /\ resp'.meta.page = 1
                 /\ Len(resp'.data) = IF Cardinality(AvailableIds) < 10
                                       THEN Cardinality(AvailableIds) ELSE 10
                 /\ {resp'.data[i].id : i \in 1..Len(resp'.data)}
                       \subseteq AvailableIds]_vars

C22_Witness ==
    /\ calls["c1"].pc = "findMany"
    /\ calls["c1"].page = 1
    /\ calls["c1"].limit = 10
    /\ calls["c1"].total = 2

\* C23: a remove that returns without error returns the row as the table
\* holds it right after the write of that remove, and that row has
\* available = false, whatever steps of other requests came in between.
C23_RemoveReturnsStored ==
    [][\A c \in Callers :
        (Writes(c, "remove") /\ resp'.error = NoError)
            => /\ resp'.op = "remove"
               /\ calls[c].id \in 1..Len(table')
               /\ resp'.product = <<table'[calls[c].id]>>
               /\ resp'.product[1].id = calls[c].id
               /\ resp'.product[1].available = FALSE]_vars

C23_Witness ==
    /\ resp.op = "remove"
    /\ resp.error = NoError
    /\ resp.product = <<table[resp.id]>>
    /\ ~resp.product[1].available
    /\ resp.product[1].name = "b"
    /\ \E c \in Callers : calls[c].pc = "update" /\ calls[c].id = resp.id

\* what findOne(id) answers over table t, from t and id alone
FindOneAnswer(t, id) ==
    LET hits == {i \in 1..Len(t) : t[i].id = id /\ t[i].available}
    IN  IF hits = {}
        THEN Reply("findOne", id, NotFoundException(id), <<>>, <<>>, NoMeta)
        ELSE Reply("findOne", id, NoError, <<t[CHOOSE i \in hits : TRUE]>>,
                   <<>>, NoMeta)

\* the available rows of table t from position first to position last, in
\* id order
RowsFrom(t, first, last) ==
    LET ids == {t[i].id : i \in {j \in 1..Len(t) : t[j].available}}
        rank(id) == Cardinality({j \in ids : j <= id})
        n == IF Cardinality(ids) < last THEN Cardinality(ids) ELSE last
    IN  [k \in 1..(IF n >= first THEN n - first + 1 ELSE 0) |->
            t[CHOOSE id \in ids : rank(id) = first + k - 1]]

\* C24: the answer of a read is fixed by the table and the arguments of the
\* call: findOne(id) answers FindOneAnswer(table, id) whatever the other
\* handlers are doing and whatever was answered before, and the data of
\* findAll(page, limit) is rows (page-1)*limit+1 .. page*limit of the
\* available rows of the table, its meta the page, the count taken by its
\* first read and the lastPage of that count; so two equal reads over an
\* unchanged table answer the same.
C24_ReadsStateless ==
    [][/\ resp'.op = "findOne" => resp' = FindOneAnswer(table, resp'.id)
       /\ (resp.op = "findOne" /\ resp'.op = "findOne" /\ resp'.id = resp.id
              /\ resp.error # PersistenceError /\ resp'.error # PersistenceError)
            => resp' = resp
       /\ \A c \in Callers :
            /\ Passes(c, "findMany")
                  => calls'[c].total
                        = Cardinality({i \in 1..Len(table) : table[i].available})
            /\ Fetches(c)
                  => LET page == calls[c].page
                         limit == calls[c].limit
                     IN  /\ resp'.data = RowsFrom(table, (page - 1) * limit + 1,
                                                  page * limit)
                         /\ resp'.meta.page = page
                         /\ resp'.meta.total = calls[c].total
                         /\ resp'.error = NoError]_vars

C24_Witness ==
    /\ resp.op = "findOne"
    /\ resp.error = NoError
    /\ resp.product = <<table[1]>>
    /\ calls["c2"].pc = "remove"
    /\ calls["c2"].id = 1
    /\ calls["c1"].pc = "idle"

\* C25: a step of findOne or of findAll, answering a result or an error,
\* leaves every row of the table as it was, updatedAt included, and stamps
\* nothing.
C25_ReadsReadOnly ==
    [][/\ resp'.op \in {"findOne", "findAll"}
            => (table' = table /\ now' = now /\ removed' = removed)
       /\ \A c \in Callers :
            (Passes(c, "findMany") \/ Fetches(c))
                => (table' = table /\ now' = now /\ removed' = removed)]_vars

C25_Witness ==
    /\ resp.op = "findAll"
    /\ Len(resp.data) = 1
    /\ resp.data = <<table[1]>>
    /\ table[1].updatedAt = 0
    /\ now = 0
    /\ \E c \in Callers : calls[c].pc = "update"

\* C26: the write of an update changes only the columns its data names, so
\* it keeps what a concurrent update of other columns wrote: when the write
\* of one update lands right after another update of the same product
\* returned, it succeeds, the columns it names hold its values and the other
\* columns hold what the earlier update returned; name from one and price
\* from the other are both in the final row.
C26_NoLostUpdate ==
    [][\A c \in Callers :
        (Writes(c, "update") /\ resp.op = "update" /\ resp.error = NoError
            /\ resp.id = calls[c].id)
           => LET row == table'[calls[c].id]
                  data == calls[c].data
              IN  /\ resp'.op = "update"
                  /\ resp'.error = NoError
                  /\ resp'.product = <<row>>
                  /\ \A k \in {"name", "price"} :
                        row[k] = IF k \in DOMAIN data THEN data[k]
                                 ELSE resp.product[1][k]]_vars

C26_Witness ==
    /\ resp.op = "update"
    /\ resp.error = NoError
    /\ resp.product[1].name = "b"
    /\ resp.product[1].price = 1
    /\ resp.product[1].available
    /\ \E c \in Callers :
          /\ calls[c].pc = "update"
          /\ calls[c].id = resp.id
          /\ DOMAIN calls[c].data = {"price"}
          /\ calls[c].data.price = 2

\* C27: with update and remove of one product interleaved in any order, a
\* product some remove has returned for is unavailable in every later state:
\* the data an update writes never names available and its write leaves the
\* flag of every row as it was.
C27_UpdateKeepsSoftDelete ==
    [][/\ \A id \in Ids :
            removed'[id] > 0 => (id <= Len(table') /\ ~table'[id].available)
       /\ \A c \in Callers :
            /\ Passes(c, "update") => "available" \notin DOMAIN calls'[c].data
            /\ Writes(c, "update")
                  => /\ Len(table') = Len(table)
                     /\ \A i \in 1..Len(table) :
                           table'[i].available = table[i].available]_vars

C27_Witness ==
    /\ resp.op = "remove"
    /\ resp.error = NoError
    /\ ~table[resp.id].available
    /\ table[resp.id].updatedAt = 1
    /\ table[resp.id].createdAt = 0
    /\ \E c \in Callers : calls[c].pc = "update" /\ calls[c].id = resp.id

C28_Termination ==
    /\ [][\A c \in Callers :
            (calls[c].pc # "idle" /\ calls'[c] # calls[c])
                => (calls'[c].pc = "idle" /\ resp'.op # "none")]_vars
    /\ \A c \in Callers : []<>(calls[c].pc = "idle")

C28_Witness ==
    /\ calls["c1"].pc = "update"
    /\ calls["c2"].pc = "findMany"
    /\ Len(table) = 1
    /\ ~table[1].available

TypeOK ==
    /\ Len(table) <= MaxRows
    /\ now \in Instants
    /\ \A i \in 1..Len(table) : table[i].id = i
====
